---- MODULE Spec2Model ----
(***************************************************************************)
(* Model of vinted_notifier.py: one scheduled run after another of main(). *)
(* A run loads the history file, fetches and reconciles every configured   *)
(* profile, saves the history (temp file, then replace) and posts the      *)
(* accumulated embeds to the webhook in chunks.                            *)
(***************************************************************************)
EXTENDS Integers, Sequences, FiniteSets, TLC

\* ------------------------------------------------------------------ bounds
MaxUsers == 2      \* longest configured profile list
MaxFetch == 1      \* longest enumerated fetch result
MaxRuns == 2       \* runs of the job in one behaviour
MaxEmbeds == 23    \* longest embed list handed to post_to_discord on its own
IdLimit == 324     \* item identifiers of the model are in 0..IdLimit-1

\* --------------------------------------------------------- program constants
HistoryCap == 200  \* the [:200] of main
CHUNK == 10        \* CHUNK of post_to_discord

\* ------------------------------------------------------- stored id lists
\* A list of ids (List[int]) is held in the state as its maximal runs of
\* consecutive descending ids, <<first, last>> each: 298, 297, ..., 99 is
\* <<<<298, 99>>>> and 101, 100, 7 is <<<<101, 100>>, <<7, 7>>>>. Pack and Unpack
\* are inverse to each other on every list of integers.
Pack(s) ==
    LET n == Len(s)
        starts == SelectSeq([k \in 1..n |-> k],
                            LAMBDA k : k = 1 \/ s[k] # s[k - 1] - 1)
    IN [m \in 1..Len(starts) |->
           <<s[starts[m]], s[IF m < Len(starts) THEN starts[m + 1] - 1 ELSE n]>>]

RECURSIVE Unpack(_)
Unpack(r) ==
    IF r = <<>> THEN <<>>
    ELSE LET run_ == r[Len(r)]
         IN Unpack(SubSeq(r, 1, Len(r) - 1))
                \o [k \in 1..(run_[1] - run_[2] + 1) |-> run_[1] - k + 1]

\* ------------------------------------------------------------------ inputs
Profiles == {"p1", "p2"}

\* parse_user_ids: a non-empty list of profile ids, kept in the order given;
\* nothing removes a repeated id.
parse_user_ids == UNION {[1..n -> Profiles] : n \in 1..MaxUsers}

\* A normalized item, reduced to its "id": an int, or a value that is not an
\* int (the structured source passes a non-numeric id through unchanged).
IntItem(n) == [kind |-> "int", id |-> n]
OtherItem == [kind |-> "other", id |-> 0]

\* Fetched lists: every list of up to MaxFetch items with an id below (2) or above
\* (300) the ids of a full stored history, and four longer ones (DupFetch: the
\* feed lists an item twice).
SmallItems == {IntItem(2), IntItem(300)}
OtherFetch == <<OtherItem>>
ScenarioFetch == <<IntItem(99), IntItem(100), IntItem(102)>>
LongFetch == [k \in 1..(CHUNK + 1) |-> IntItem(IdLimit - k)]
DupFetch == <<IntItem(300), IntItem(300)>>
FetchLists ==
    UNION {[1..n -> SmallItems] : n \in 0..MaxFetch}
        \cup {OtherFetch, ScenarioFetch, LongFetch, DupFetch}

\* Stored histories a run can start from: what an earlier run wrote for a profile
\* (descending, no repeats, at most HistoryCap entries).
FullHist == [k \in 1..HistoryCap |-> 99 + HistoryCap - k]
InitHists == {Pack(<<101, 100>>), Pack(FullHist)}
InitFiles == {[k \in {} |-> <<>>]} \cup [Profiles -> InitHists]

\* Outcomes of one requests.post to the webhook.
PostOutcomes == {"2xx", "non2xx", "exception"}

\* ----------------------------------------------------- the item sources
\* What the outside world answers to the requests of one fetch_user_items call:
\*   token   APIFY_TOKEN is set
\*   ep1     the answer of run-sync-get-dataset-items
\*   ep2     the answer of run-sync
\*   feed    the answer of the RSS feed
\*   enrich  the answers of /api/v2/items/<id>, one per feed item
\* An endpoint answers with an exception of the transport, a status other than
\* 200, a 200 whose body r.json() cannot parse, or a 200 with a JSON body.
None == [t |-> "None"]

EpFailed(st) == [st |-> st]
EpJson(body) == [st |-> "json", body |-> body]

\* JSON values of a body: a list of records, an object exposing a value under one
\* key, a non-empty string, a non-zero number, null.
JList(recs) == [t |-> "list", v |-> recs]
JDict(key, val) == [t |-> "dict", k |-> key, v |-> val]
JStr == [t |-> "str"]
JNum == [t |-> "num"]
JNull == [t |-> "null"]

\* A record of the actor: an object with its "id" (an int, a string of digits, any
\* other string, or none, and then the hash h of the record is the id) or a value
\* that is not an object.
RecInt(n, h) == [t |-> "dict", id |-> "int", n |-> n, h |-> h]
RecDigits(n, h) == [t |-> "dict", id |-> "digits", n |-> n, h |-> h]
RecStr(h) == [t |-> "dict", id |-> "str", n |-> 0, h |-> h]
RecNoId(h) == [t |-> "dict", id |-> "none", n |-> 0, h |-> h]
RecNotDict == [t |-> "num", id |-> "none", n |-> 0, h |-> 0]

\* _call_apify_actor_sync: the value returned (None when neither endpoint gave
\* one). The first endpoint returns a bare list, or whatever an object holds
\* under "items"; the second a list held under one of four keys, or a bare list.
call_apify_actor_sync(token, ep1, ep2) ==
    IF ~token THEN None
    ELSE IF ep1.st = "json" /\ ep1.body.t = "list" THEN ep1.body
    ELSE IF ep1.st = "json" /\ ep1.body.t = "dict" /\ ep1.body.k = "items"
         THEN ep1.body.v
    ELSE IF /\ ep2.st = "json" /\ ep2.body.t = "dict"
            /\ ep2.body.k \in {"items", "results", "output", "data"}
            /\ ep2.body.v.t = "list"
         THEN ep2.body.v
    ELSE IF ep2.st = "json" /\ ep2.body.t = "list" THEN ep2.body
    ELSE None

\* Python's truth value of a value returned by the actor call
Truthy(v) == v.t \in {"str", "num"} \/ (v.t = "list" /\ v.v # <<>>)

\* lines 197-204: the "id" of a normalized record. A falsy id (none, 0) gives
\* the hash; a string of digits becomes the int; another string stays.
NormalizedId(rec) ==
    IF rec.id = "int" /\ rec.n # 0 THEN IntItem(rec.n)
    ELSE IF rec.id = "digits" THEN IntItem(rec.n)
    ELSE IF rec.id = "str" THEN OtherItem
    ELSE IntItem(rec.h)

\* lines 190-213: apify_result, None or the normalized items. Records that
\* are not objects are skipped; iterating a string yields no object; iterating
\* a number raises, and the except makes the result None.
ApifyResult(v) ==
    IF ~Truthy(v) \/ v.t = "num" THEN None
    ELSE IF v.t = "str" THEN JList(<<>>)
    ELSE LET dicts == SelectSeq(v.v, LAMBDA rec : rec.t = "dict")
         IN JList([k \in 1..Len(dicts) |-> NormalizedId(dicts[k])])

\* The feed answers with an exception of the transport, an HTTP error status
\* (raise_for_status raises), or a body: not XML, XML without a channel, or a
\* channel with its entries.
FeedFailed(st) == [st |-> st]
FeedBody(body) == [st |-> "ok", body |-> body]
Unparseable == [t |-> "unparseable"]
NoChannel == [t |-> "no_channel"]
Rss(entries) == [t |-> "rss", entries |-> entries]

\* A feed entry: its link holds /items/<n> or not (then the hash h of the link is
\* the id); its description holds an image or not, its text a price or not.
Entry(n, img, price) == [link |-> "items", n |-> n, img |-> img, price |-> price]
EntryNoId(h, img, price) == [link |-> "other", n |-> h, img |-> img, price |-> price]

\* it[key] = val when there is a value ("none": there is none). An absent key
\* of an item is an absent field of the record.
With(it, key, val) == IF val = "none" THEN it ELSE (key :> val) @@ it

Has(it, key) == key \in DOMAIN it

\* _parse_rss_items, lines 143-173: one item per entry
ParsedEntry(e) ==
    With(With(IntItem(e.n), "photo", e.img), "price", e.price)

\* _parse_rss_items: no item when the text is not XML or has no channel
parse_rss_items(body) ==
    IF body.t \in {"unparseable", "no_channel"} THEN <<>>
    ELSE [k \in 1..Len(body.entries) |-> ParsedEntry(body.entries[k])]

\* The item-detail endpoint answers with an exception, a status other than 200, or
\* a 200 with a source object holding a price, a photo and a size or not.
LookupFailed(st) == [st |-> st, price |-> "none", photo |-> "none", size |-> "none"]
LookupOk(price, photo, size) ==
    [st |-> "ok", price |-> price, photo |-> photo, size |-> size]

\* lines 232-268: the item after its detail lookup. The price is set when the
\* item has none; the photo and the size are set whenever the source has them.
Enriched(it, ans) ==
    IF it.id = 0 \/ ans.st # "ok" THEN it
    ELSE LET p == IF Has(it, "price") THEN it ELSE With(it, "price", ans.price)
         IN With(With(p, "photo", ans.photo), "size", ans.size)

\* Mutant of fetch_user_items: a feed body that is not XML raises.
fetch_user_items_strict(resp) ==
    LET apify_result ==
            ApifyResult(call_apify_actor_sync(resp.token, resp.ep1, resp.ep2))
    IN IF apify_result # None
       THEN [ok |-> TRUE, items |-> apify_result.v, feed |-> "not_requested"]
       ELSE IF resp.feed.st # "ok" \/ resp.feed.body.t = "unparseable"
       THEN [ok |-> FALSE, items |-> <<>>,
             feed |-> IF resp.feed.st # "ok" THEN resp.feed.st ELSE "unparseable"]
       ELSE LET items == parse_rss_items(resp.feed.body)
            IN [ok |-> TRUE,
                items |-> [k \in 1..Len(items) |-> Enriched(items[k], resp.enrich[k])],
                feed |-> resp.feed.body.t]

\* fetch_user_items: raises (ok is FALSE) or returns {"items": items}; `feed`
\* tells what became of the feed request: not made, failed, or the body it got.
fetch_user_items(resp) ==
    LET apify_result ==
            ApifyResult(call_apify_actor_sync(resp.token, resp.ep1, resp.ep2))
    IN IF apify_result # None
       THEN [ok |-> TRUE, items |-> apify_result.v, feed |-> "not_requested"]
       ELSE IF resp.feed.st # "ok"
       THEN [ok |-> FALSE, items |-> <<>>, feed |-> resp.feed.st]
       ELSE LET items == parse_rss_items(resp.feed.body)
            IN [ok |-> TRUE,
                items |-> [k \in 1..Len(items) |-> Enriched(items[k], resp.enrich[k])],
                feed |-> resp.feed.body.t]

\* ---------------------------------------------- what the sources answer
NoLookup(n) == [k \in 1..n |-> LookupFailed("non200")]

\* No token; the feed answers with a body, an exception or an HTTP error.
FeedOnly(answer, lookups) ==
    [token |-> FALSE, ep1 |-> EpFailed("exception"), ep2 |-> EpFailed("exception"),
     feed |-> answer, enrich |-> lookups]

\* No token; the feed lists the items of l, no detail is to be had.
FromFeed(l) ==
    FeedOnly(FeedBody(Rss([k \in 1..Len(l) |-> Entry(l[k].id, "none", "none")])),
             NoLookup(Len(l)))

\* A token; the actor returns recs at once.
FromActor(recs) ==
    [token |-> TRUE, ep1 |-> EpJson(JList(recs)), ep2 |-> EpFailed("exception"),
     feed |-> FeedFailed("exception"), enrich |-> <<>>]

\* The answers a run of main meets: the feed fails (transport, HTTP status), is
\* not XML, or lists the items of one of FetchLists (the actor, for the item whose
\* id is not an int).
Responses ==
    {FeedOnly(FeedFailed("exception"), <<>>), FeedOnly(FeedFailed("http_error"), <<>>),
     FeedOnly(FeedBody(Unparseable), <<>>)}
        \cup {IF l = OtherFetch THEN FromActor(<<RecStr(0)>>) ELSE FromFeed(l) :
                 l \in FetchLists}

\* What client.fetch_user_items does in main, line 423
FetchResults == {fetch_user_items(resp) : resp \in Responses}

\* ------------------------------------------------------------------ helpers
Range(s) == {s[i] : i \in 1..Len(s)}

Take(s, n) == SubSeq(s, 1, IF Len(s) < n THEN Len(s) ELSE n)

\* history.get(user_id, [])
HistGet(h, u) == IF u \in DOMAIN h THEN Unpack(h[u]) ELSE <<>>

\* Mutant of SortedDesc: reverse=True forgotten.
SortedAsc(S) ==
    SelectSeq([i \in 1..IdLimit |-> i - 1], LAMBDA x : x \in S)

\* sorted(list(known_ids), reverse=True)
SortedDesc(S) ==
    SelectSeq([i \in 1..IdLimit |-> IdLimit - i], LAMBDA x : x \in S)

RECURSIVE InsertById(_, _)
InsertById(s, it) ==
    IF s = <<>> THEN <<it>>
    ELSE IF s[Len(s)].id <= it.id THEN Append(s, it)
    ELSE Append(InsertById(SubSeq(s, 1, Len(s) - 1), it), s[Len(s)])

\* Mutant of SortById: the new items are left in fetch order.
Unsorted(s) == s

\* sorted(new_items, key=lambda x: x.get("id", 0)): stable, ascending
RECURSIVE SortById(_)
SortById(s) ==
    IF s = <<>> THEN <<>>
    ELSE InsertById(SortById(SubSeq(s, 1, Len(s) - 1)), s[Len(s)])

\* Mutant of NewItems: the isinstance(it_id, int) test forgotten.
NewItemsAnyId(items, known) ==
    SelectSeq(items, LAMBDA it : it.id \notin known)

\* the filter loop of main: int id, not in known_ids
NewItems(items, known) ==
    SelectSeq(items, LAMBDA it : it.kind = "int" /\ it.id \notin known)

\* Mutant of MergeAndTrim: the [:200] forgotten.
MergeNoTrim(known, new) ==
    SortedDesc(known \cup {new[i].id : i \in 1..Len(new)})

\* history[user_id] = sorted(list(known_ids), reverse=True)[:200]
MergeAndTrim(known, new) ==
    Take(SortedDesc(known \cup {new[i].id : i \in 1..Len(new)}), HistoryCap)

\* build_discord_embed, reduced to the item the embed shows
build_discord_embed(it) == [id |-> it.id]

Embeds(new) == [i \in 1..Len(new) |-> build_discord_embed(new[i])]

EmptyHist == [k \in {} |-> <<>>]

\* ------------------------------------------------------------------- state
VARIABLES
    file,        \* last_items.json, as the record load_history returns for it:
                 \* profile id -> list of ids (packed); {} when there is no file
    run,         \* number of runs started
    status,      \* "idle" | "running" | "done" | "exit2" | "crashed"
    pc,          \* position of the run in main
    webhook,     \* a webhook url is configured
    user_ids,    \* the profile list of the run
    idx,         \* index in user_ids of the profile to process next
    history,     \* the in-memory history of the run (lists packed)
    all_embeds,  \* embeds accumulated by the run
    i,           \* post_to_discord's loop index (0-based)
    ok_all,      \* post_to_discord's ok_all
    msg,         \* post_to_discord's msg, as the chunk number it names (0: "")
    loaded,      \* history as load_history returned it in this run
    passes,      \* one record per loop iteration of main, in order: the profile,
                 \* whether the fetch returned, what became of the feed request,
                 \* the items, the profile's history before and after (packed),
                 \* the sorted new items
    saves,       \* save_history calls of the run
    save_error,  \* save_history raised (main's except at lines 470-471)
    writes,      \* replacements of the history file by the run
    posts,       \* requests.post calls of the run: [chunk, outcome]
    prev,        \* the passes of the previous run when it stopped between
                 \* persisting the history and delivering
    call,        \* a call of fetch_user_items looked at on its own
    store        \* save_history and load_history looked at on their own

vars == <<file, run, status, pc, webhook, user_ids, idx, history, all_embeds,
          i, ok_all, msg, loaded, passes, saves, save_error, writes, posts, prev,
          call, store>>

\* No call, no store under examination
NoCall == [returned |-> FALSE]
NoStore == [phase |-> "none"]

NoPrev == [stopped |-> FALSE, passes |-> <<>>]

\* The memory of a process that has not started, or is gone.
NoProcess ==
    /\ pc' = "start"
    /\ idx' = 1
    /\ history' = EmptyHist
    /\ all_embeds' = <<>>
    /\ i' = 0
    /\ ok_all' = TRUE
    /\ msg' = 0
    /\ loaded' = EmptyHist
    /\ passes' = <<>>
    /\ saves' = 0
    /\ save_error' = FALSE
    /\ writes' = 0
    /\ posts' = <<>>

\* The configuration (webhook, profile list) is the job's: every run has the same.
Init ==
    /\ file \in InitFiles
    /\ run = 0
    /\ status = "idle"
    /\ webhook \in BOOLEAN
    /\ user_ids \in parse_user_ids
    /\ pc = "start"
    /\ idx = 1
    /\ history = EmptyHist
    /\ all_embeds = <<>>
    /\ i = 0
    /\ ok_all = TRUE
    /\ msg = 0
    /\ loaded = EmptyHist
    /\ passes = <<>>
    /\ saves = 0
    /\ save_error = FALSE
    /\ writes = 0
    /\ posts = <<>>
    /\ prev = NoPrev
    /\ call = NoCall
    /\ store = NoStore

\* main, lines 397-412: a new process; no webhook -> sys.exit(2).
Begin ==
    /\ run' = run + 1
    /\ NoProcess
    /\ status' = IF webhook THEN "running" ELSE "exit2"
    /\ prev' = IF status = "crashed" THEN prev ELSE NoPrev
    /\ UNCHANGED <<file, webhook, user_ids>>
    /\ UNCHANGED <<call, store>>

\* The first run of the job.
Startup ==
    /\ status = "idle"
    /\ Begin

\* The scheduler starts the job again after a run has ended.
Restart ==
    /\ status \in {"done", "exit2", "crashed"}
    /\ run < MaxRuns
    /\ Begin

\* main, lines 414-418
Load ==
    /\ status = "running" /\ pc = "start"
    /\ history' = file
    /\ loaded' = file
    /\ pc' = "fetch"
    /\ UNCHANGED <<file, run, status, webhook, user_ids, idx, all_embeds, i,
                   ok_all, msg, passes, saves, save_error, writes, posts, prev>>
    /\ UNCHANGED <<call, store>>

\* Mutant of ProcessProfile: a fetch that raises ends the loop over the profiles
\* (break for continue).
ProcessProfileStopOnError(data) ==
    /\ status = "running" /\ pc = "fetch"
    /\ idx <= Len(user_ids)
    /\ LET user_id == user_ids[idx]
           before == HistGet(history, user_id)
           known_ids == Range(before)
           new_items_sorted == SortById(NewItems(data.items, known_ids))
           after == MergeAndTrim(known_ids, new_items_sorted)
       IN IF data.ok
          THEN /\ history' = [k \in DOMAIN history \cup {user_id} |->
                                 IF k = user_id THEN Pack(after) ELSE history[k]]
               /\ all_embeds' = all_embeds \o Embeds(new_items_sorted)
               /\ passes' = Append(passes,
                     [user |-> user_id, ok |-> TRUE, feed |-> data.feed,
                      items |-> data.items, before |-> Pack(before),
                      new |-> new_items_sorted, after |-> Pack(after)])
          ELSE /\ UNCHANGED <<history, all_embeds>>
               /\ passes' = Append(passes,
                     [user |-> user_id, ok |-> FALSE, feed |-> data.feed,
                      items |-> <<>>, before |-> Pack(before), new |-> <<>>,
                      after |-> Pack(before)])
    /\ idx' = IF data.ok THEN idx + 1 ELSE Len(user_ids) + 1
    /\ UNCHANGED <<file, run, status, pc, webhook, user_ids, i, ok_all, msg,
                   loaded, saves, save_error, writes, posts, prev>>
    /\ UNCHANGED <<call, store>>

\* main, lines 420-466: one iteration of the loop over user_ids. The fetch raises
\* (the profile is skipped) or returns the items to reconcile.
ProcessProfile(data) ==
    /\ status = "running" /\ pc = "fetch"
    /\ idx <= Len(user_ids)
    /\ LET user_id == user_ids[idx]
           before == HistGet(history, user_id)
           known_ids == Range(before)
           new_items_sorted == SortById(NewItems(data.items, known_ids))
           after == MergeAndTrim(known_ids, new_items_sorted)
       IN IF data.ok
          THEN /\ history' = [k \in DOMAIN history \cup {user_id} |->
                                 IF k = user_id THEN Pack(after) ELSE history[k]]
               /\ all_embeds' = all_embeds \o Embeds(new_items_sorted)
               /\ passes' = Append(passes,
                     [user |-> user_id, ok |-> TRUE, feed |-> data.feed,
                      items |-> data.items, before |-> Pack(before),
                      new |-> new_items_sorted, after |-> Pack(after)])
          ELSE /\ UNCHANGED <<history, all_embeds>>
               /\ passes' = Append(passes,
                     [user |-> user_id, ok |-> FALSE, feed |-> data.feed,
                      items |-> <<>>, before |-> Pack(before), new |-> <<>>,
                      after |-> Pack(before)])
    /\ idx' = idx + 1
    /\ UNCHANGED <<file, run, status, pc, webhook, user_ids, i, ok_all, msg,
                   loaded, saves, save_error, writes, posts, prev>>
    /\ UNCHANGED <<call, store>>

\* Mutant of SaveWriteTmp: the save is reached before the loop over the profiles
\* has ended.
SaveBeforeLoopEnd(ok) ==
    /\ status = "running" /\ pc = "fetch"
    /\ saves' = saves + 1
    /\ pc' = IF ok THEN "replace" ELSE "post"
    /\ save_error' = ~ok
    /\ UNCHANGED <<file, run, status, webhook, user_ids, idx, history, all_embeds, i,
                   ok_all, msg, loaded, passes, writes, posts, prev>>
    /\ UNCHANGED <<call, store>>

\* Mutant of SaveWriteTmp: no try around save_history; an error ends the run.
SaveWriteTmpUncaught(ok) ==
    /\ status = "running" /\ pc = "fetch"
    /\ idx > Len(user_ids)
    /\ saves' = saves + 1
    /\ pc' = IF ok THEN "replace" ELSE "post"
    /\ save_error' = ~ok
    /\ status' = IF ok THEN status ELSE "done"
    /\ UNCHANGED <<file, run, webhook, user_ids, idx, history, all_embeds, i,
                   ok_all, msg, loaded, passes, writes, posts, prev>>
    /\ UNCHANGED <<call, store>>

\* save_history, lines 287-289, called at line 469: write the temp file, which
\* nothing reads but the os.replace of the same call. On an error main's except
\* goes on to the delivery.
SaveWriteTmp(ok) ==
    /\ status = "running" /\ pc = "fetch"
    /\ idx > Len(user_ids)
    /\ saves' = saves + 1
    /\ pc' = IF ok THEN "replace" ELSE "post"
    /\ save_error' = ~ok
    /\ UNCHANGED <<file, run, status, webhook, user_ids, idx, history, all_embeds, i,
                   ok_all, msg, loaded, passes, writes, posts, prev>>
    /\ UNCHANGED <<call, store>>

\* Mutant of SaveReplace: only the entries of the configured profiles are written.
SaveReplaceConfiguredOnly(ok) ==
    /\ status = "running" /\ pc = "replace"
    /\ IF ok THEN /\ file' = [k \in DOMAIN history \cap Range(user_ids) |-> history[k]]
                  /\ writes' = writes + 1
             ELSE UNCHANGED <<file, writes>>
    /\ save_error' = ~ok
    /\ pc' = "post"
    /\ UNCHANGED <<run, status, webhook, user_ids, idx, history, all_embeds, i,
                   ok_all, msg, loaded, passes, saves, posts, prev>>
    /\ UNCHANGED <<call, store>>

\* save_history, line 290: os.replace moves the temp file, which holds the dump of
\* `history`, which nothing changed since SaveWriteTmp.
SaveReplace(ok) ==
    /\ status = "running" /\ pc = "replace"
    /\ IF ok THEN /\ file' = history
                  /\ writes' = writes + 1
             ELSE UNCHANGED <<file, writes>>
    /\ save_error' = ~ok
    /\ pc' = "post"
    /\ UNCHANGED <<run, status, webhook, user_ids, idx, history, all_embeds, i,
                   ok_all, msg, loaded, passes, saves, posts, prev>>
    /\ UNCHANGED <<call, store>>

\* main, lines 473, 479-482: nothing to send.
NothingToSend ==
    /\ status = "running" /\ pc = "post"
    /\ all_embeds = <<>>
    /\ status' = "done"
    /\ UNCHANGED <<file, run, pc, webhook, user_ids, idx, history, all_embeds, i,
                   ok_all, msg, loaded, passes, saves, save_error, writes, posts, prev>>
    /\ UNCHANGED <<call, store>>

\* Mutant of PostChunk: the slice is one short (embeds[i:i + CHUNK - 1]).
PostChunkShort(outcome) ==
    /\ status = "running" /\ pc = "post"
    /\ i < Len(all_embeds)
    /\ LET last == IF i + CHUNK - 1 < Len(all_embeds)
                   THEN i + CHUNK - 1 ELSE Len(all_embeds)
           payload == SubSeq(all_embeds, i + 1, last)
       IN posts' = Append(posts, [chunk |-> payload, outcome |-> outcome])
    /\ IF outcome = "2xx"
       THEN UNCHANGED <<ok_all, msg>>
       ELSE /\ ok_all' = FALSE
            /\ msg' = Len(posts) + 1
    /\ i' = i + CHUNK
    /\ status' = IF i + CHUNK < Len(all_embeds) THEN "running" ELSE "done"
    /\ UNCHANGED <<file, run, pc, webhook, user_ids, idx, history, all_embeds,
                   loaded, passes, saves, save_error, writes, prev>>
    /\ UNCHANGED <<call, store>>

\* Mutant of PostChunk: the function returns at the first failed chunk.
PostChunkAbort(outcome) ==
    /\ status = "running" /\ pc = "post"
    /\ i < Len(all_embeds)
    /\ LET last == IF i + CHUNK < Len(all_embeds) THEN i + CHUNK ELSE Len(all_embeds)
           payload == SubSeq(all_embeds, i + 1, last)
       IN posts' = Append(posts, [chunk |-> payload, outcome |-> outcome])
    /\ IF outcome = "2xx"
       THEN UNCHANGED <<ok_all, msg>>
       ELSE /\ ok_all' = FALSE
            /\ msg' = Len(posts) + 1
    /\ i' = i + CHUNK
    /\ status' = IF outcome = "2xx" /\ i + CHUNK < Len(all_embeds)
                  THEN "running" ELSE "done"
    /\ UNCHANGED <<file, run, pc, webhook, user_ids, idx, history, all_embeds,
                   loaded, passes, saves, save_error, writes, prev>>
    /\ UNCHANGED <<call, store>>

\* Mutant of PostChunk: a successful chunk clears the message of an earlier
\* failure.
PostChunkClearMsg(outcome) ==
    /\ status = "running" /\ pc = "post"
    /\ i < Len(all_embeds)
    /\ LET last == IF i + CHUNK < Len(all_embeds) THEN i + CHUNK ELSE Len(all_embeds)
           payload == SubSeq(all_embeds, i + 1, last)
       IN posts' = Append(posts, [chunk |-> payload, outcome |-> outcome])
    /\ IF outcome = "2xx"
       THEN /\ msg' = 0
            /\ UNCHANGED ok_all
       ELSE /\ ok_all' = FALSE
            /\ msg' = Len(posts) + 1
    /\ i' = i + CHUNK
    /\ status' = IF i + CHUNK < Len(all_embeds) THEN "running" ELSE "done"
    /\ UNCHANGED <<file, run, pc, webhook, user_ids, idx, history, all_embeds,
                   loaded, passes, saves, save_error, writes, prev>>
    /\ UNCHANGED <<call, store>>

\* post_to_discord, lines 375-386: one iteration of the loop over the chunks;
\* after the last one the function returns and main ends.
PostChunk(outcome) ==
    /\ status = "running" /\ pc = "post"
    /\ i < Len(all_embeds)
    /\ LET last == IF i + CHUNK < Len(all_embeds) THEN i + CHUNK ELSE Len(all_embeds)
           payload == SubSeq(all_embeds, i + 1, last)
       IN posts' = Append(posts, [chunk |-> payload, outcome |-> outcome])
    /\ IF outcome = "2xx"
       THEN UNCHANGED <<ok_all, msg>>
       ELSE /\ ok_all' = FALSE
            /\ msg' = Len(posts) + 1
    /\ i' = i + CHUNK
    /\ status' = IF i + CHUNK < Len(all_embeds) THEN "running" ELSE "done"
    /\ UNCHANGED <<file, run, pc, webhook, user_ids, idx, history, all_embeds,
                   loaded, passes, saves, save_error, writes, prev>>
    /\ UNCHANGED <<call, store>>

\* The process is killed between two steps: its memory is gone, the files stay.
\* prev keeps what the run had reconciled when it stopped after the history file
\* was replaced and before the first post.
Crash ==
    /\ status = "running"
    /\ status' = "crashed"
    /\ prev' = IF pc = "post" /\ writes = 1 /\ posts = <<>>
               THEN [stopped |-> TRUE, passes |-> passes] ELSE NoPrev
    /\ NoProcess
    /\ UNCHANGED <<file, run, webhook, user_ids>>
    /\ UNCHANGED <<call, store>>

\* A step of the process itself
Step ==
    \/ Startup
    \/ Load
    \/ \E data \in FetchResults : ProcessProfile(data)
    \/ \E ok \in BOOLEAN : SaveWriteTmp(ok)
    \/ \E ok \in BOOLEAN : SaveReplace(ok)
    \/ NothingToSend
    \/ \E outcome \in PostOutcomes : PostChunk(outcome)

Next == Step \/ Crash

\* One run of the job.
Spec == Init /\ [][Next]_vars

\* One run of the job that nothing kills: the interpreter goes on executing main
\* as long as main has a step to take; every request has a timeout (TIMEOUT, 60)
\* and so returns or raises. The run starts with no history file or with a full
\* history for every profile.
InitLive ==
    /\ Init
    /\ file \in {EmptyHist, [u \in Profiles |-> Pack(FullHist)]}

SpecLive == InitLive /\ [][Step]_vars /\ WF_vars(Step)

\* Runs of the job one after another.
NextRuns == Next \/ Restart

SpecRuns == Init /\ [][NextRuns]_vars

\* post_to_discord on its own: any list of up to MaxEmbeds embeds.
EmbedLists == {[k \in 1..n |-> build_discord_embed(IntItem(k))] : n \in 0..MaxEmbeds}

InitPost ==
    /\ file = EmptyHist
    /\ run = 1
    /\ status = "running"
    /\ webhook = TRUE
    /\ user_ids = <<"p1">>
    /\ pc = "post"
    /\ idx = 2
    /\ history = EmptyHist
    /\ all_embeds \in EmbedLists
    /\ i = 0
    /\ ok_all = TRUE
    /\ msg = 0
    /\ loaded = EmptyHist
    /\ passes = <<>>
    /\ saves = 0
    /\ save_error = FALSE
    /\ writes = 0
    /\ posts = <<>>
    /\ prev = NoPrev
    /\ call = NoCall
    /\ store = NoStore

NextPost ==
    \/ NothingToSend
    \/ \E outcome \in PostOutcomes : PostChunk(outcome)

SpecPost == InitPost /\ [][NextPost]_vars

\* --------------------------------------- the history file and its text
\* The text of a JSON file, as its tokens: the punctuation, the characters of a
\* number, and a quoted string (a profile id) as one token. The white space that
\* indent=2 adds is left out.
MaxIds == 2        \* longest id list of a record saved on its own

DigitChars == <<"0", "1", "2", "3", "4", "5", "6", "7", "8", "9">>

\* str(n) for n >= 0
RECURSIVE NatText(_)
NatText(n) ==
    IF n < 10 THEN <<DigitChars[n + 1]>>
    ELSE NatText(n \div 10) \o <<DigitChars[(n % 10) + 1]>>

\* Mutant of IntText: the sign is not written.
IntTextNoSign(n) == IF n < 0 THEN NatText(0 - n) ELSE NatText(n)

\* json's text of an int
IntText(n) == IF n < 0 THEN <<"-">> \o NatText(0 - n) ELSE NatText(n)

\* json's text of a list of ints
RECURSIVE ListBody(_)
ListBody(l) ==
    IF l = <<>> THEN <<>>
    ELSE IF Len(l) = 1 THEN IntText(l[1])
    ELSE ListBody(SubSeq(l, 1, Len(l) - 1)) \o <<",">> \o IntText(l[Len(l)])

ListText(l) == <<"[">> \o ListBody(l) \o <<"]">>

\* The keys of a record in the order the dict holds them
KeyOrder == <<"p1", "p2">>
Keys(rec) == SelectSeq(KeyOrder, LAMBDA k : k \in DOMAIN rec)

RECURSIVE MembersText(_, _)
MembersText(rec, ks) ==
    IF ks = <<>> THEN <<>>
    ELSE LET k == ks[Len(ks)]
             m == <<k, ":">> \o ListText(rec[k])
         IN IF Len(ks) = 1 THEN m
            ELSE MembersText(rec, SubSeq(ks, 1, Len(ks) - 1)) \o <<",">> \o m

\* json.dump(history, f, ensure_ascii=False, indent=2): the text written
json_dump(rec) == <<"{">> \o MembersText(rec, Keys(rec)) \o <<"}">>

Failed == [ok |-> FALSE, val |-> 0, pos |-> 0]

IsDigit(c) == \E d \in 1..10 : DigitChars[d] = c
DigitVal(c) == (CHOOSE d \in 1..10 : DigitChars[d] = c) - 1

\* The digits of t from position p on, read as a number continuing acc
RECURSIVE ParseDigits(_, _, _)
ParseDigits(t, p, acc) ==
    IF p <= Len(t) /\ IsDigit(t[p])
    THEN ParseDigits(t, p + 1, 10 * acc + DigitVal(t[p]))
    ELSE [ok |-> TRUE, val |-> acc, pos |-> p]

\* A JSON int at position p of t
ParseInt(t, p) ==
    LET neg == p <= Len(t) /\ t[p] = "-"
        q == IF neg THEN p + 1 ELSE p
    IN IF q > Len(t) \/ ~IsDigit(t[q]) THEN Failed
       ELSE LET r == ParseDigits(t, q, 0)
            IN [ok |-> TRUE, val |-> IF neg THEN 0 - r.val ELSE r.val, pos |-> r.pos]

\* The elements of an array from position p on (after "[" or ","), continuing acc
RECURSIVE ParseElems(_, _, _)
ParseElems(t, p, acc) ==
    LET r == ParseInt(t, p)
    IN IF ~r.ok \/ r.pos > Len(t) THEN Failed
       ELSE IF t[r.pos] = "]"
            THEN [ok |-> TRUE, val |-> Append(acc, r.val), pos |-> r.pos + 1]
       ELSE IF t[r.pos] = ","
            THEN ParseElems(t, r.pos + 1, Append(acc, r.val))
       ELSE Failed

\* A JSON array of ints at position p of t
ParseList(t, p) ==
    IF p + 1 > Len(t) \/ t[p] # "[" THEN Failed
    ELSE IF t[p + 1] = "]" THEN [ok |-> TRUE, val |-> <<>>, pos |-> p + 2]
    ELSE ParseElems(t, p + 1, <<>>)

IsString(c) == ~IsDigit(c) /\ c \notin {"{", "}", "[", "]", ",", ":", "-"}

\* The members of an object from position p on (after "{" or ","), continuing acc
RECURSIVE ParseMembers(_, _, _)
ParseMembers(t, p, acc) ==
    IF p + 1 > Len(t) \/ ~IsString(t[p]) \/ t[p + 1] # ":" THEN Failed
    ELSE LET r == ParseList(t, p + 2)
             rec == (t[p] :> (IF r.ok THEN r.val ELSE <<>>)) @@ acc
         IN IF ~r.ok \/ r.pos > Len(t) THEN Failed
            ELSE IF t[r.pos] = "}"
                 THEN [ok |-> r.pos = Len(t), val |-> rec, pos |-> r.pos + 1]
            ELSE IF t[r.pos] = ","
                 THEN ParseMembers(t, r.pos + 1, rec)
            ELSE Failed

\* json.load(f) followed by {str(k): list(map(int, v)) ...}: an object of lists of
\* ints, or an exception
json_load(t) ==
    IF Len(t) < 2 \/ t[1] # "{" THEN Failed
    ELSE IF t[2] = "}" THEN [ok |-> Len(t) = 2, val |-> EmptyHist, pos |-> 3]
    ELSE ParseMembers(t, 2, EmptyHist)

\* A file: absent, or its text
NoFile == [exists |-> FALSE, text |-> <<>>]
FileOf(t) == [exists |-> TRUE, text |-> t]

\* load_history: {} when there is no file or json.load raises
load_history(f) ==
    IF ~f.exists THEN EmptyHist
    ELSE LET r == json_load(f.text)
         IN IF r.ok THEN r.val ELSE EmptyHist

\* Mutant of TmpName: the dump is written over the history file itself.
TmpIsPath == "path"

\* save_history, line 287: tmp = path + ".tmp"
TmpName == "tmp"

\* Records saved on their own: any profiles, lists of up to MaxIds ids.
StoreIds == {45, 0 - 3}
StoreLists == UNION {[1..n -> StoreIds] : n \in 0..MaxIds}
StoreRecords == UNION {[S -> StoreLists] : S \in SUBSET Profiles}

\* What last_items.json holds before: nothing, or the dump of an earlier record.
OldRecords == {EmptyHist, [u \in Profiles |-> <<120, 7>>], [u \in {"p2"} |-> <<0>>]}

\* A left-over temp file of a run that stopped while writing
StaleTmp == FileOf(<<"{", "p1">>)

\* The main variables have the values of a process that has not started.
Parked ==
    /\ file = EmptyHist
    /\ run = 0
    /\ status = "idle"
    /\ webhook = TRUE
    /\ user_ids = <<"p1">>
    /\ pc = "start"
    /\ idx = 1
    /\ history = EmptyHist
    /\ all_embeds = <<>>
    /\ i = 0
    /\ ok_all = TRUE
    /\ msg = 0
    /\ loaded = EmptyHist
    /\ passes = <<>>
    /\ saves = 0
    /\ save_error = FALSE
    /\ writes = 0
    /\ posts = <<>>
    /\ prev = NoPrev

MainVars == <<file, run, status, pc, webhook, user_ids, idx, history, all_embeds,
              i, ok_all, msg, loaded, passes, saves, save_error, writes, posts, prev>>

\* save_history(mem) is about to be called; `old` is the record stored before
\* (EmptyHist with no file), `got` what a later load_history returns.
InitStore ==
    /\ Parked
    /\ call = NoCall
    /\ \E old \in OldRecords, hasfile \in BOOLEAN, mem \in StoreRecords,
          tmp \in {NoFile, StaleTmp} :
          /\ hasfile \/ old = EmptyHist
          /\ store = [phase |-> "start", cut |-> FALSE,
                      files |-> [path |-> IF hasfile THEN FileOf(json_dump(old))
                                          ELSE NoFile,
                                 tmp |-> tmp],
                      mem |-> mem, old |-> old, got |-> EmptyHist]

\* line 288: open(tmp, "w") creates the file or empties it
SaveOpen ==
    /\ store.phase = "start"
    /\ store' = [store EXCEPT !.phase = "writing",
                              !.files[TmpName] = FileOf(<<>>)]
    /\ UNCHANGED <<MainVars, call>>

\* line 289: json.dump writes the text piece by piece
SaveDump ==
    /\ store.phase = "writing"
    /\ LET text == json_dump(store.mem)
           n == Len(store.files[TmpName].text)
       IN /\ n < Len(text)
          /\ store' = [store EXCEPT !.files[TmpName] = FileOf(SubSeq(text, 1, n + 1))]
    /\ UNCHANGED <<MainVars, call>>

\* line 290: os.replace(tmp, path), once the text is written and the file closed
SaveOsReplace ==
    /\ store.phase = "writing"
    /\ store.files[TmpName].text = json_dump(store.mem)
    /\ store' = [store EXCEPT !.phase = "saved",
                              !.files = IF TmpName = "path" THEN @
                                        ELSE [path |-> @[TmpName], tmp |-> NoFile]]
    /\ UNCHANGED <<MainVars, call>>

\* The process stops during save_history: before the open, while the text is
\* written, or when os.replace has been done.
StoreCrash ==
    /\ store.phase \in {"start", "writing", "saved"}
    /\ store' = [store EXCEPT !.phase = "stopped", !.cut = TRUE]
    /\ UNCHANGED <<MainVars, call>>

\* A later run: load_history(HISTORY_FILE)
StoreLoad ==
    /\ store.phase \in {"saved", "stopped"}
    /\ store' = [store EXCEPT !.phase = "loaded",
                              !.got = load_history(store.files.path)]
    /\ UNCHANGED <<MainVars, call>>

NextStore ==
    \/ SaveOpen
    \/ SaveDump
    \/ SaveOsReplace
    \/ StoreCrash
    \/ StoreLoad

SpecStore == InitStore /\ [][NextStore]_vars

\* ----------------------------------------- fetch_user_items on its own
\* Answers of the actor's endpoints
ActorRecs == {RecInt(7, 5), RecInt(0, 5), RecDigits(7, 5), RecStr(5), RecNoId(5),
              RecNotDict}
ActorLists == {<<>>, <<RecNotDict, RecInt(7, 5)>>} \cup {<<rec>> : rec \in ActorRecs}
ActorValues == {JList(l) : l \in ActorLists} \cup {JStr, JNum, JNull}
ActorBodies ==
    ActorValues
        \cup {JDict(key, val) : key \in {"items", "results", "other"},
                                val \in {JList(<<>>), JList(<<RecInt(7, 5)>>),
                                         JStr, JNum, JNull}}
Ep1Answers ==
    {EpFailed("exception"), EpFailed("non200"), EpFailed("unparseable")}
        \cup {EpJson(body) : body \in ActorBodies}
Ep2Answers ==
    {EpFailed("exception"), EpFailed("non200"), EpFailed("unparseable"),
     EpJson(JList(<<>>)), EpJson(JList(<<RecInt(8, 5)>>)),
     EpJson(JDict("results", JList(<<RecInt(8, 5)>>))),
     EpJson(JDict("items", JStr)), EpJson(JDict("other", JList(<<RecInt(8, 5)>>)))}

\* Answers of the feed and of the detail endpoint
FeedEntries ==
    {Entry(9, img, price) : img \in {"none", "rss"}, price \in {"none", "rss"}}
        \cup {Entry(0, "rss", "none"), EntryNoId(5, "none", "rss")}
FeedAnswers ==
    {FeedFailed("exception"), FeedFailed("http_error"), FeedBody(Unparseable),
     FeedBody(NoChannel), FeedBody(Rss(<<>>)),
     FeedBody(Rss(<<Entry(9, "rss", "none"), Entry(9, "none", "rss")>>))}
        \cup {FeedBody(Rss(<<e>>)) : e \in FeedEntries}
LookupAnswers ==
    {LookupFailed("exception"), LookupFailed("non200")}
        \cup {LookupOk(price, photo, size) :
                 price \in {"none", "api"}, photo \in {"none", "api"},
                 size \in {"none", "api"}}

\* Every combination of answers; without a token the actor is not asked.
FetchInputs ==
    {[token |-> TRUE, ep1 |-> a1, ep2 |-> a2, feed |-> f, enrich |-> <<l, l>>] :
        a1 \in Ep1Answers, a2 \in Ep2Answers, f \in FeedAnswers, l \in LookupAnswers}
    \cup {FeedOnly(f, <<l, l>>) : f \in FeedAnswers, l \in LookupAnswers}

InitFetch ==
    /\ Parked
    /\ store = NoStore
    /\ \E resp \in FetchInputs : call = [returned |-> FALSE, resp |-> resp]

\* client.fetch_user_items(...) runs against the answers of call.resp
FetchCall ==
    /\ ~call.returned
    /\ call' = [returned |-> TRUE, resp |-> call.resp,
                result |-> fetch_user_items(call.resp)]
    /\ UNCHANGED <<MainVars, store>>

NextFetch == FetchCall

SpecFetch == InitFetch /\ [][NextFetch]_vars

\* ------------------------------------------------------------- properties
Ids(s) == {s[j].id : j \in 1..Len(s)}

NoRepeats(s) == Cardinality(Range(s)) = Len(s)

Descending(s) == \A a \in 1..(Len(s) - 1) : s[a] > s[a + 1]

Count(v, s) == Cardinality({j \in 1..Len(s) : s[j] = v})

Min(a, b) == IF a < b THEN a ELSE b

\* The ok passes of the run
OkPasses == {k \in 1..Len(passes) : passes[k].ok}

\* C1: an identifier that is in a profile's history when the run loads it never
\* appears in the run's new-item list for that profile (and so in no payload).
C1_NoDuplicateNotification ==
    \A k \in OkPasses :
        Ids(passes[k].new) \cap Range(HistGet(loaded, passes[k].user)) = {}

\* C2: reconciling a second time with the identical fetched list against the
\* history the first reconciliation produced yields an empty new-item list.
C2_Idempotent ==
    \A j, k \in OkPasses :
        ( /\ j < k
          /\ passes[j].user = passes[k].user
          /\ passes[j].items = passes[k].items
          /\ passes[k].before = passes[j].after )
        => passes[k].new = <<>>

\* The run has fetched, pass for pass up to pass k, what the stopped run fetched.
SameFetches(k) ==
    /\ k <= Len(prev.passes)
    /\ \A m \in 1..k : /\ passes[m].user = prev.passes[m].user
                       /\ passes[m].ok = prev.passes[m].ok
                       /\ passes[m].items = prev.passes[m].items

\* C3: after a run that stopped between persisting the history and delivering, the
\* next run, fetching the same items, has in its new-item lists no item that the
\* stopped run had classified as new for that profile.
C3_NoDuplicateAfterStop ==
    (prev.stopped /\ status \in {"running", "done"}) =>
        \A k \in OkPasses :
            SameFetches(k) =>
                \A j \in 1..Len(prev.passes) :
                    prev.passes[j].user = passes[k].user =>
                        Ids(passes[k].new) \cap Ids(prev.passes[j].new) = {}

\* The run ended between persisting and delivering, and the next run has met
\* the same fetches: the case C3 is about.
C3_Case ==
    /\ prev.stopped
    /\ status = "done"
    /\ \A k \in 1..Len(passes) : SameFetches(k)

\* The profile's history before and after pass k, and what pass k merged
Before(k) == Unpack(passes[k].before)
After(k) == Unpack(passes[k].after)
Merged(k) == Range(Before(k)) \cup Ids(passes[k].new)

AllProcessed == Len(passes) = Len(user_ids)

\* C4 as stated: a run that ends has written the history exactly once, after the
\* last profile was processed and before the first post; no post is issued while a
\* profile is unprocessed.
C4_WrittenExactlyOnce ==
    /\ status = "done" => writes = 1
    /\ writes > 0 => AllProcessed
    /\ posts # <<>> => (writes = 1 /\ AllProcessed)

\* C4 amended: a run that ends has called save exactly once and has replaced the
\* history file once when that save succeeded and not at all when it raised; the
\* save and the replacement come after the last profile is processed and before
\* the first post, and no post is issued while a profile is unprocessed.
C4_SavedOnceBeforePosts ==
    [][ /\ Len(passes') > Len(passes) => (saves = 0 /\ writes = 0 /\ posts = <<>>)
        /\ saves' > saves => (AllProcessed /\ saves = 0 /\ posts = <<>>)
        /\ writes' > writes => (AllProcessed /\ writes = 0 /\ saves = 1 /\ posts = <<>>)
        /\ Len(posts') > Len(posts) =>
               (AllProcessed /\ saves = 1 /\ saves' = saves /\ writes' = writes)
        /\ status' = "done" =>
               (AllProcessed' /\ saves' = 1 /\ writes' = IF save_error' THEN 0 ELSE 1)
      ]_vars

C4_Witness ==
    /\ status = "done"
    /\ Len(user_ids) = 2
    /\ writes = 1
    /\ Len(posts) = 2

\* The run is in its loop over the profiles, between two iterations. (No pass is
\* made or changed once the loop has ended.)
InLoop == status = "running" /\ pc = "fetch"

\* Pass k is the latest of its profile
Latest(k) == \A m \in (k + 1)..Len(passes) : passes[m].user # passes[k].user

\* What C5 says of pass k; the list is the one main stores for the profile.
C5_Post(k) ==
    LET after == After(k)
    IN /\ Len(after) <= 200
       /\ NoRepeats(after)
       /\ Latest(k) => history[passes[k].user] = passes[k].after

\* C5: after merge-and-trim a profile's history holds at most 200 identifiers and
\* none twice, whatever the size of the previous history and the number of new
\* identifiers merged.
C5_HistoryBounded == InLoop => \A k \in OkPasses : C5_Post(k)

C5_Witness ==
    \E k \in OkPasses :
        /\ Len(Before(k)) = 200
        /\ Len(passes[k].new) > 1
        /\ Len(After(k)) = 200

\* An item's identifier is absent from a set of known ids
Absent(it, known) == it.kind # "int" \/ it.id \notin known

C6_Post(k) ==
    LET known == Range(Before(k))
    IN /\ \A it \in Range(passes[k].items) \cup Range(passes[k].new) :
              Count(it, passes[k].new) =
                  IF it.kind = "int" /\ it.id \notin known
                  THEN Count(it, passes[k].items) ELSE 0
       /\ (known = {100, 101} /\ Ids(passes[k].items) = {99, 100, 102})
              => (Ids(passes[k].new) = {99, 102} /\ Range(After(k)) = {99, 100, 101, 102})

C7_Post(k) ==
    LET after == After(k)
        kept == Range(after)
        merged == Merged(k)
    IN /\ kept \subseteq merged
       /\ Len(after) = Min(Cardinality(merged), 200)
       /\ Descending(after)
       /\ \A x \in merged \ kept : \A y \in kept : x < y

\* C7: the updated history is the 200 numerically largest identifiers of the union
\* of the previous history and the new items' identifiers (all of the union when it
\* has at most 200), in descending order.
C7_LargestDescending == InLoop => \A k \in OkPasses : C7_Post(k)

C7_Witness ==
    \E k \in OkPasses :
        /\ Cardinality(Merged(k)) > 200
        /\ Merged(k) \ Range(After(k)) # {}
        /\ Ids(passes[k].new) \cap Range(After(k)) # {}

\* The payloads of the posts so far, in call order
RECURSIVE Dispatched(_)
Dispatched(p) ==
    IF p = <<>> THEN <<>>
    ELSE Dispatched(SubSeq(p, 1, Len(p) - 1)) \o p[Len(p)].chunk

\* The new items of the passes, pass after pass
RECURSIVE NewInPassOrder(_)
NewInPassOrder(ps) ==
    IF ps = <<>> THEN <<>>
    ELSE NewInPassOrder(SubSeq(ps, 1, Len(ps) - 1)) \o ps[Len(ps)].new

C9_Chunking ==
    LET n == Len(all_embeds)
        calls == Len(posts)
        sent == Dispatched(posts)
    IN /\ \A c \in 1..calls :
              /\ Len(posts[c].chunk) \in 1..10
              /\ c < calls => Len(posts[c].chunk) = 10
       /\ Len(sent) <= n
       /\ sent = SubSeq(all_embeds, 1, Len(sent))
       /\ status = "done" =>
              /\ sent = all_embeds
              /\ 10 * calls >= n
              /\ 10 * (calls - 1) < n
              /\ n = 23 => [c \in 1..calls |-> Len(posts[c].chunk)] = <<10, 10, 3>>

C9_Witness ==
    /\ status = "done"
    /\ Len(all_embeds) = 23
    /\ Len(posts) = 3

\* C10: whatever the outcomes of the chunks, every chunk is attempted exactly once
\* and in order: the c-th call carries the c-th slice of ten, a failed call is
\* followed by the call for the next slice, and the function returns only when
\* the last slice has been attempted.
C10_FailedChunkDoesNotStop ==
    LET n == Len(all_embeds)
    IN /\ \A c \in 1..Len(posts) :
              posts[c].chunk = SubSeq(all_embeds, 10 * (c - 1) + 1, Min(10 * c, n))
       /\ status = "done" => 10 * Len(posts) >= n
       /\ status = "running" => 10 * Len(posts) < n \/ n = 0

C10_Witness ==
    /\ status = "done"
    /\ Len(posts) = 3
    /\ posts[1].outcome = "non2xx"
    /\ posts[2].outcome = "exception"
    /\ posts[3].outcome = "2xx"

\* The chunks that failed so far: a non-2xx answer or an exception
FailedChunks == {c \in 1..Len(posts) : posts[c].outcome # "2xx"}

\* C11: the dispatcher's result is (ok_all, msg): ok_all is true exactly when no
\* chunk failed (msg is then empty), and otherwise msg is the message of the most
\* recent failed chunk; chunk 1 of 2 failing and chunk 2 succeeding gives a failed
\* result with chunk 1's message.
C11_ResultOfDispatch ==
    /\ ok_all <=> FailedChunks = {}
    /\ FailedChunks = {} => msg = 0
    /\ FailedChunks # {} =>
           (msg \in FailedChunks /\ \A c \in FailedChunks : c <= msg)
    /\ ( /\ status = "done"
         /\ Len(posts) = 2
         /\ posts[1].outcome # "2xx"
         /\ posts[2].outcome = "2xx" ) => (~ok_all /\ msg = 1)

C11_Witness ==
    /\ status = "done"
    /\ Len(posts) = 2
    /\ posts[1].outcome = "non2xx"
    /\ posts[2].outcome = "2xx"
    /\ msg = 1

\* The passes whose feed request failed with an HTTP error status
HttpErrorPasses == {k \in 1..Len(passes) : passes[k].feed = "http_error"}

\* The profile's entry holds the list it held when load_history returned
AsLoaded(u) == HistGet(history, u) = HistGet(loaded, u)

\* C12 as stated: when the feed request of a profile fails with an HTTP error the
\* fetch fails, the run goes on with the remaining profiles, the profile's history
\* entry is as loaded and no payload is produced for the profile.
C12_FailedProfileAsLoaded ==
    /\ status = "done" => AllProcessed
    /\ InLoop =>
           \A k \in HttpErrorPasses :
               /\ ~passes[k].ok
               /\ AsLoaded(passes[k].user)
               /\ \A j \in 1..Len(passes) :
                      passes[j].user = passes[k].user => passes[j].new = <<>>

\* What the run has done when it has ended with a destination configured
C13_Completed ==
    /\ AllProcessed
    /\ \A k \in 1..Len(passes) : passes[k].user = user_ids[k]
    /\ saves = 1
    /\ all_embeds = Embeds(NewInPassOrder(passes))
    /\ Dispatched(posts) = all_embeds

\* C13: without a destination the run ends at once (exit 2) with no history load,
\* no fetch, no history write and no webhook call; with a destination, whatever
\* fetches, the save and chunks fail, the run is never aborted, it ends, and it
\* has then processed every profile, attempted the save once and attempted the
\* delivery of every accumulated payload.
C13_OnlyMissingWebhookAborts ==
    /\ [](~webhook => /\ status \in {"idle", "exit2"}
                      /\ pc = "start" /\ passes = <<>>
                      /\ saves = 0 /\ writes = 0 /\ posts = <<>>)
    /\ [](webhook => /\ status \in {"idle", "running", "done"}
                     /\ status = "done" => C13_Completed)
    /\ <>(status = IF webhook THEN "done" ELSE "exit2")

C13_Witness ==
    /\ status = "done"
    /\ Len(passes) = 2
    /\ ~passes[1].ok
    /\ passes[2].new # <<>>
    /\ save_error
    /\ Len(posts) = 2
    /\ posts[1].outcome = "exception"

\* C14: when save_history has raised, the run goes on to the delivery, and the
\* dispatcher is handed every payload accumulated for the new items of all the
\* profiles, in the same calls as when the save succeeds.
C14_SaveFailureDoesNotStopDelivery ==
    save_error =>
        LET n == Len(all_embeds)
        IN /\ status \in {"running", "done"}
           /\ pc = "post"
           /\ AllProcessed
           /\ all_embeds = Embeds(NewInPassOrder(passes))
           /\ \A c \in 1..Len(posts) :
                  posts[c].chunk = SubSeq(all_embeds, 10 * (c - 1) + 1, Min(10 * c, n))
           /\ status = "done" => Dispatched(posts) = all_embeds

C14_Witness ==
    /\ status = "done"
    /\ save_error
    /\ writes = 0
    /\ Len(passes) = 2
    /\ passes[1].new # <<>>
    /\ passes[2].new # <<>>
    /\ Len(posts) = 2

\* C15: if the process stops during save_history, a later load_history returns
\* either the whole record stored before or the whole record being saved; at
\* every point of the save the history file holds one of the two.
C15_AtomicSave ==
    /\ load_history(store.files.path) \in {store.old, store.mem}
    /\ (store.phase = "loaded" /\ store.cut) => store.got \in {store.old, store.mem}

C15_Witness ==
    /\ store.phase = "loaded"
    /\ store.cut
    /\ store.files.tmp.exists
    /\ Len(store.files.tmp.text) > 4
    /\ store.files.tmp.text # json_dump(store.mem)
    /\ DOMAIN store.old = Profiles
    /\ DOMAIN store.mem = Profiles
    /\ store.got = store.old

\* C16: load_history after save_history(record) returns a mapping with the keys
\* of the record and, for every key, the same set of ids and the same number of
\* ids.
C16_RoundTrip ==
    (store.phase = "loaded" /\ ~store.cut) =>
        /\ DOMAIN store.got = DOMAIN store.mem
        /\ \A k \in DOMAIN store.mem :
               /\ Range(store.got[k]) = Range(store.mem[k])
               /\ Len(store.got[k]) = Len(store.mem[k])

C16_Witness ==
    /\ store.phase = "loaded"
    /\ ~store.cut
    /\ DOMAIN store.mem = Profiles
    /\ store.mem["p1"] = <<45, 0 - 3>>
    /\ store.mem["p2"] = <<>>
    /\ store.old # store.mem
    /\ store.got = store.mem

\* The list of records an answer of the actor exposes, bare or under one of
\* keys (<<>> when it exposes none)
ExposedList(ans, keys) ==
    IF ans.st # "json" THEN <<>>
    ELSE IF ans.body.t = "list" THEN ans.body.v
    ELSE IF ans.body.t = "dict" /\ ans.body.k \in keys /\ ans.body.v.t = "list"
         THEN ans.body.v.v
    ELSE <<>>

\* The records the structured source yields: those of the first endpoint when
\* its body is a list or an object with "items", else those of the second
StructuredRecords(resp) ==
    IF /\ resp.ep1.st = "json"
       /\ \/ resp.ep1.body.t = "list"
          \/ resp.ep1.body.t = "dict" /\ resp.ep1.body.k = "items"
    THEN ExposedList(resp.ep1, {"items"})
    ELSE ExposedList(resp.ep2, {"items", "results", "output", "data"})

\* C17: fetch_user_items raises only when the feed request fails; the feed is
\* requested exactly when no token is configured or the structured source
\* yielded no records (transport failure, status other than 200, unparseable or
\* unrecognised body, empty list), and not when it yielded records.
C17_StructuredFailureFallsToFeed ==
    call.returned =>
        /\ ~call.result.ok => call.result.feed \in {"exception", "http_error"}
        /\ call.result.feed = "not_requested"
               <=> (call.resp.token /\ StructuredRecords(call.resp) # <<>>)

\* C18 as stated: a feed body that cannot be parsed is a failed fetch, as a failed feed
\* request is: the fetch does not return an item list, the profile is skipped and
\* its history entry stays as loaded.
C18_UnparseableFeedIsFailure ==
    InLoop =>
        \A k \in 1..Len(passes) :
            passes[k].feed = "unparseable" =>
                (~passes[k].ok /\ AsLoaded(passes[k].user))

\* C18 amended: a feed body that cannot be parsed is a feed without items, not
\* a failed request: the fetch returns an empty item list, the iteration finds no
\* new item and adds no payload, and the profile's history entry is stored with
\* the identifiers it held (an empty entry when the profile had none).
C18_UnparseableFeedIsEmptyFeed ==
    InLoop =>
        /\ all_embeds = Embeds(NewInPassOrder(passes))
        /\ \A k \in 1..Len(passes) :
               passes[k].feed = "unparseable" =>
                   /\ passes[k].ok
                   /\ passes[k].items = <<>>
                   /\ passes[k].new = <<>>
                   /\ passes[k].after = passes[k].before
                   /\ Latest(k) => /\ passes[k].user \in DOMAIN history
                                   /\ history[passes[k].user] = passes[k].before

C18_Witness ==
    /\ status = "done"
    /\ Len(passes) = 2
    /\ passes[1].feed = "unparseable"
    /\ passes[1].before # <<>>
    /\ passes[2].user # passes[1].user
    /\ passes[2].new # <<>>
    /\ writes = 1
    /\ file[passes[1].user] = loaded[passes[1].user]

\* C19: enrichment leaves every price, size and photo an item had before at its
\* value, changes only absent fields, leaves the item as it was when the lookup
\* answers a status other than 200 or raises, and never fails the fetch.
C19_EnrichmentOnlyFillsGaps ==
    (call.returned /\ call.resp.feed.st = "ok" /\ call.result.feed # "not_requested") =>
        LET before == parse_rss_items(call.resp.feed.body)
            after == call.result.items
        IN /\ call.result.ok
           /\ Len(after) = Len(before)
           /\ \A k \in 1..Len(before) :
                  /\ after[k].id = before[k].id
                  /\ \A key \in {"price", "size", "photo"} :
                         Has(before[k], key) =>
                             (Has(after[k], key) /\ after[k][key] = before[k][key])
                  /\ call.resp.enrich[k].st # "ok" => after[k] = before[k]

\* C20: no identifier is twice in a profile's new-item list (and so no item is
\* notified twice in the run for that profile), also when the fetched list holds
\* an identifier more than once.
C20_NoRepeatInNewItems ==
    InLoop =>
        \A k \in OkPasses :
            Cardinality(Ids(passes[k].new)) = Len(passes[k].new)

\* The profiles of user_ids
Configured == Range(user_ids)

\* The profiles whose fetch returned in some iteration of the run
Fetched == {passes[k].user : k \in OkPasses}

\* rec holds every key of the loaded history, with the loaded entry for every key
\* that `others` leaves out. Entries are compared as stored: Pack and Unpack are
\* inverse to each other, so equal packed entries are the same identifiers in
\* the same order.
FrameOf(rec, others) ==
    /\ DOMAIN loaded \subseteq DOMAIN rec
    /\ \A k \in DOMAIN rec \ others : k \in DOMAIN loaded /\ rec[k] = loaded[k]

\* C21: a run changes only the history entries of the profiles it fetched: at
\* every point of the run after the load, and in the file that save has written,
\* every key of the loaded history is still there, the entry of every key that is
\* not in the configured profile list is the loaded entry (same identifiers, same
\* order), and so is the entry of every profile whose fetch never returned.
C21_OnlyFetchedProfilesChange ==
    /\ (status = "running" /\ pc # "start") =>
           /\ FrameOf(history, Configured)
           /\ FrameOf(history, Fetched)
    /\ writes >= 1 =>
           /\ FrameOf(file, Configured)
           /\ FrameOf(file, Fetched)

\* C21's case: the file has been written, the loaded history held an entry of a
\* profile that is not configured, and the run changed the entry of a
\* configured one.
C21_Witness ==
    /\ writes = 1
    /\ \E k \in DOMAIN loaded : k \notin Configured
    /\ \E u \in Configured : u \in DOMAIN loaded /\ file[u] # loaded[u]

TypeOK ==
    /\ run \in 0..MaxRuns
    /\ status \in {"idle", "running", "done", "exit2", "crashed"}
    /\ pc \in {"start", "fetch", "replace", "post"}
    /\ idx \in 1..(MaxUsers + 1)
====
